---------------------------- MODULE Spec2Model ----------------------------
(***************************************************************************)
(* A model of carbon_intensity_api.CarbonIntensityAPI: the range query     *)
(* `between` (interval splitting and concatenation of the pages), the page *)
(* fetch `_fetch_url` (retry with exponential back-off) and the rounding   *)
(* `_nearest_hh`.                                                          *)
(*                                                                         *)
(* A datetime is a record [sec, us, tz]: `sec` is the wall-clock time in   *)
(* whole seconds since midnight of day 0, `us` the microsecond field and   *)
(* `tz` the zone (NoTz for a naive datetime).  A timedelta is a number of  *)
(* seconds: every timedelta of the program is a whole number of minutes.   *)
(*                                                                         *)
(* The program raises the built-in Exception with a message.  `err` names  *)
(* the kind of the exception that ended a call:                            *)
(*   "InvalidInputError"  the Exception of lines 59 and 64,                *)
(*   "FetchError"         the Exception of lines 145 and 149,              *)
(*   any other name       an exception of the transport, re-raised as is.  *)
(***************************************************************************)
EXTENDS Integers, Sequences, FiniteSets

VARIABLES
    retries,        \* self.retries
    pc,             \* position of the caller: idle, while, fetch, done, error
    arg_start,      \* `start` as passed to between
    arg_end,        \* `end` as passed to between
    arg_type,       \* `type` as passed to between
    start,          \* between: `start` after line 60
    end,            \* between: `end` after line 61
    type,           \* between: `type` after line 62
    request_start,  \* between: request_start
    request_end,    \* between: request_end
    carbon,         \* between: carbon
    gen_mix,        \* between: gen_mix
    success,        \* _fetch_url: success
    try_counter,    \* _fetch_url: try_counter
    delay,          \* _fetch_url: delay
    page,           \* _fetch_url: page (the last response)
    err,            \* the exception that ended the call, or NoError
    result,         \* what between returned
    urls,           \* history: the url of every query_api call of this call of between
    frags,          \* history: carbon_ of every page parsed by this call of between
    events,         \* history: the GETs and sleeps of the current _fetch_url call
    gets,           \* history: the number of requests.get calls of this call of between
    script,         \* history: the url and the answer of every GET of this call of between
    calls,          \* history: the calls of between made on the instance
    prev            \* history: how the call before this one went

vars == <<retries, pc, arg_start, arg_end, arg_type, start, end, type,
          request_start, request_end, carbon, gen_mix, success, try_counter,
          delay, page, err, result, urls, frags, events, gets, script, calls, prev>>

-----------------------------------------------------------------------------
(* Bounds of the model *)

\* self.retries is drawn from 0..MaxRetries
MaxRetries == 3
\* the requested interval is up to MaxSpan maximum windows (and one half hour) long
MaxSpan == 2
\* regions in every datum of a regional response
NumRegions == 2

(* Constants of the program *)

MaxRangeDays == 14
HalfHourMinutes == 30
InitialDelay == 1
DefaultRetries == 3

SecondsPerDay == 24 * 3600
HalfHour == HalfHourMinutes * 60
Noon == 12 * 3600

-----------------------------------------------------------------------------
(* datetime and timedelta *)

\* tzinfo: <<>> is None, <<n>> a zone whose UTC offset is n seconds
NoTz == <<>>
Zone(n) == <<n>>

DT(sec, us, tz) == [sec |-> sec, us |-> us, tz |-> tz]

Minute(dt) == (dt.sec \div 60) % 60
Second(dt) == dt.sec % 60
Microsecond(dt) == dt.us

\* dt + timedelta(seconds=n): the microsecond field and the zone are kept
PlusSeconds(dt, n) == [dt EXCEPT !.sec = @ + n]

\* the instant of an aware datetime, in seconds of UTC
UtcSec(dt) == dt.sec - dt.tz[1]

\* a < b for aware datetimes: instants are compared
Less(a, b) ==
    \/ UtcSec(a) < UtcSec(b)
    \/ UtcSec(a) = UtcSec(b) /\ a.us < b.us

\* min(a, b) of Python: b only when b < a
MinDT(a, b) == IF Less(b, a) THEN b ELSE a

\* pd.to_datetime(..., utc=True)
ToUtc(dt) == DT(UtcSec(dt), dt.us, Zone(0))


-----------------------------------------------------------------------------
(* strings: a str is a sequence of one-character strings *)

UpperCase == <<"A", "B", "C", "D", "E", "F", "G", "H", "I", "J", "K", "L", "M",
               "N", "O", "P", "Q", "R", "S", "T", "U", "V", "W", "X", "Y", "Z">>
LowerCase == <<"a", "b", "c", "d", "e", "f", "g", "h", "i", "j", "k", "l", "m",
               "n", "o", "p", "q", "r", "s", "t", "u", "v", "w", "x", "y", "z">>

LowerChar(c) ==
    IF \E i \in 1..Len(UpperCase) : UpperCase[i] = c
    THEN LowerCase[CHOOSE i \in 1..Len(UpperCase) : UpperCase[i] = c]
    ELSE c

\* a faulty variant of Lower: the type is compared as passed
LowerOmitted(str) == str

\* str.lower()
Lower(str) == [i \in 1..Len(str) |-> LowerChar(str[i])]

National == <<"n", "a", "t", "i", "o", "n", "a", "l">>
Regional == <<"r", "e", "g", "i", "o", "n", "a", "l">>

-----------------------------------------------------------------------------
(* CarbonIntensityAPI.__init__ *)

base_url == "https://api.carbonintensity.org.uk"

max_range(t) ==
    CASE t = National -> MaxRangeDays * SecondsPerDay
      [] t = Regional -> MaxRangeDays * SecondsPerDay

-----------------------------------------------------------------------------
(* CarbonIntensityAPI._nearest_hh *)

_nearest_hh(dt) ==
    IF ~(Minute(dt) % HalfHourMinutes = 0 /\ Second(dt) = 0 /\ Microsecond(dt) = 0)
    THEN PlusSeconds(PlusSeconds(dt, -((Minute(dt) % HalfHourMinutes) * 60 + Second(dt))),
                     HalfHour)
    ELSE dt

-----------------------------------------------------------------------------
(* CarbonIntensityAPI.between: the pure parts *)

\* line 56: both arguments are datetime objects in this model
type_check(s, e) == FALSE

\* line 57
tz_check(s, e) == s.tz = NoTz \/ e.tz = NoTz

\* line 63
TypeRejected(t) == t \notin {National, Regional}

\* a faulty variant of WhileCond: the loop also runs when the cursor is at `end`
WhileCondInclusive(rs, e) == ~Less(e, rs)

\* line 70
WhileCond(rs, e) == Less(rs, e)

\* line 65
Endpoint(t) == IF t = Regional THEN "/regional/intensity/{}/{}" ELSE "/intensity/{}/{}"

\* datetime.isoformat(): the date and time, the microseconds, the UTC offset
IsoFormat(dt) == <<dt.sec, dt.us, dt.tz>>

\* what the server reads back from an ISO-8601 text
FromIso(iso) == DT(iso[1], iso[2], iso[3])

\* a faulty variant of RequestEnd: the half hour is not taken off the window
RequestEndWholeRange(rs, e, t) == MinDT(e, PlusSeconds(rs, max_range(t)))

\* line 71
RequestEnd(rs, e, t) == MinDT(e, PlusSeconds(PlusSeconds(rs, max_range(t)), -HalfHour))

\* lines 72-73
Url(rs, re, t) ==
    [base |-> base_url, endpoint |-> Endpoint(t),
     from |-> IsoFormat(rs), to |-> IsoFormat(re)]

\* a faulty variant of NextRequestStart: the cursor moves to the end of the window just fetched
NextRequestStartBySpan(rs, t) == PlusSeconds(PlusSeconds(rs, max_range(t)), -HalfHour)

\* line 86
NextRequestStart(rs, t) == PlusSeconds(rs, max_range(t))

\* a DataFrame is its sequence of rows; None is told apart
None == [isNone |-> TRUE, rows |-> <<>>]
DataFrame(rows) == [isNone |-> FALSE, rows |-> rows]

\* a faulty variant of EntryTable: what an earlier call accumulated is kept
EntryTableKept(kept) == kept

\* lines 66-67: carbon = None, gen_mix = None, whatever an earlier call left
EntryTable(kept) == None

\* a faulty variant of Accumulate: the new fragment is put in front
AccumulateInFront(acc, frag) ==
    IF acc.isNone THEN frag ELSE DataFrame(frag.rows \o acc.rows)

\* lines 78-85: carbon = carbon_ if carbon is None else pd.concat((carbon, carbon_))
Accumulate(acc, frag) ==
    IF acc.isNone THEN frag ELSE DataFrame(acc.rows \o frag.rows)

-----------------------------------------------------------------------------
(* CarbonIntensityAPI._parse_fromto_json *)

\* lines 92-98: one row per datum
ParseNational(data) ==
    DataFrame([i \in 1..Len(data) |-> [timestamp |-> ToUtc(data[i].to)]])

\* lines 104-116: one row per datum and region, datum by datum
ParseRegionalRows(data) ==
    LET Count(i) == Len(data[i].regions)
        Before[i \in 0..Len(data)] == IF i = 0 THEN 0 ELSE Before[i - 1] + Count(i)
        Total == Before[Len(data)]
        DatumOf(k) == CHOOSE i \in 1..Len(data) : Before[i - 1] < k /\ k <= Before[i]
    IN  [k \in 1..Total |->
            [timestamp |-> ToUtc(data[DatumOf(k)].to),
             regionid  |-> data[DatumOf(k)].regions[k - Before[DatumOf(k) - 1]]]]

\* the pair (carbon_, gen_mix_) of lines 76-77
_parse_fromto_json(data, t) ==
    IF t = National
    THEN <<ParseNational(data), None>>
    ELSE <<DataFrame(ParseRegionalRows(data)), DataFrame(ParseRegionalRows(data))>>

-----------------------------------------------------------------------------
(* CarbonIntensityAPI._fetch_url: the pure parts *)

\* a faulty variant of EntryDelay: the delay of the fetch before is carried on
EntryDelayCarried(d) == d

\* line 131: delay = 1, whatever an earlier fetch left
EntryDelay(d) == InitialDelay

\* a faulty variant of FetchLoopCond: attempts are made until one succeeds
FetchLoopCondUnbounded(s, n, r) == ~s

\* a faulty variant of FetchLoopCond: one attempt too few
FetchLoopCondOffByOne(s, n, r) == ~s /\ n < r

\* line 132
FetchLoopCond(s, n, r) == ~s /\ n < r + 1

\* Response.raise_for_status(): an HTTPError for a 4xx or 5xx status
RaiseForStatus(status) == 400 <= status /\ status < 600

\* a faulty variant of ExceptClause: every exception is retried
ExceptClauseBare(exc) == "retry"

\* lines 138-143
ExceptClause(exc) == IF exc = "HTTPError" THEN "retry" ELSE "raise"

\* a faulty variant of NextDelay: a linear back-off
NextDelayLinear(d) == d + 1

\* line 140
NextDelay(d) == d * 2

\* a faulty variant of AfterLoop: the decoding error of page.json() is let through
AfterLoopNoDecodeGuard(s, p) ==
    IF ~s THEN "FetchError" ELSE IF ~p.decodable THEN "JSONDecodeError" ELSE "return"

\* a faulty variant of AfterLoop: a page that could not be fetched is skipped
AfterLoopSkipsFailure(s, p) ==
    IF ~s THEN "return" ELSE IF ~p.decodable THEN "FetchError" ELSE "return"

\* lines 144-149: what _fetch_url does once the loop is left
AfterLoop(s, p) ==
    IF ~s THEN "FetchError" ELSE IF ~p.decodable THEN "FetchError" ELSE "return"

-----------------------------------------------------------------------------
(* The transport: requests.get and the server behind it *)

NoPage == [status |-> 0, decodable |-> FALSE, data |-> <<>>]

\* every datum of a regional response lists the regions 1..NumRegions
RegionIds == [r \in 1..NumRegions |-> r]

Datum(to) == [to |-> to, regions |-> RegionIds]

\* the bodies a server may send for the window of `url`: its first and last
\* period in order, or the same two out of order
Bodies(url) ==
    LET from == ToUtc(FromIso(url.from))
        to   == ToUtc(FromIso(url.to))
    IN  {<<Datum(from), Datum(to)>>, <<Datum(to), Datum(from)>>}

\* the responses with a success status: a JSON body, or one that is no JSON
OkResponses(url) ==
    {[status |-> 200, decodable |-> TRUE, data |-> b] : b \in Bodies(url)}
        \cup {[status |-> 200, decodable |-> FALSE, data |-> <<>>]}

\* the responses of a server that answers every request with a valid page
ValidResponses(url) ==
    LET from == ToUtc(FromIso(url.from))
        to   == ToUtc(FromIso(url.to))
    IN  {[status |-> 200, decodable |-> TRUE, data |-> <<Datum(from), Datum(to)>>]}

\* the responses with a failure status
ErrorStatuses == {503}
ErrorResponse(status) == [status |-> status, decodable |-> FALSE, data |-> <<>>]

-----------------------------------------------------------------------------
(* The state machine *)

NoError == "none"
NoResult == [returned |-> FALSE, carbon |-> None, gen_mix |-> None]
NoDT == DT(0, 0, NoTz)

\* the events of a page fetch: a GET with how it ended ("ok" or the exception
\* raised), and a sleep with its length
Get(out) == [ev |-> "get", out |-> out, d |-> 0]
Sleep(d) == [ev |-> "sleep", out |-> "", d |-> d]

\* an answer of the transport to a GET of `url`: the exception requests.get
\* raised ("" for none) or the response it returned
Answer(url, exc, resp) == [url |-> url, exc |-> exc, resp |-> resp]

\* what is kept of a call: its requests, the answers it got and its outcome
CallRecord == [urls |-> urls, script |-> script, result |-> result, err |-> err]
NoCall == [urls |-> <<>>, script |-> <<>>, result |-> NoResult, err |-> NoError]

Init ==
    /\ retries \in 0..MaxRetries
    /\ pc = "idle"
    /\ arg_start = NoDT /\ arg_end = NoDT /\ arg_type = <<>>
    /\ start = NoDT /\ end = NoDT /\ type = <<>>
    /\ request_start = NoDT /\ request_end = NoDT
    /\ carbon = None /\ gen_mix = None
    /\ success = FALSE /\ try_counter = 0 /\ delay = InitialDelay
    /\ page = NoPage
    /\ err = NoError
    /\ result = NoResult
    /\ urls = <<>> /\ frags = <<>> /\ events = <<>> /\ gets = 0
    /\ script = <<>> /\ calls = 0 /\ prev = NoCall

\* an exception leaves between: nothing is returned
Raise(e) ==
    /\ pc' = "error"
    /\ err' = e
    /\ result' = NoResult

\* between(s, e, t), lines 56-69: the checks, the rounding and the first cursor
between(s, e, t) ==
    /\ arg_start' = s /\ arg_end' = e /\ arg_type' = t
    /\ urls' = <<>> /\ frags' = <<>> /\ events' = <<>> /\ gets' = 0
    /\ script' = <<>>
    /\ calls' = calls + 1
    /\ carbon' = EntryTable(carbon) /\ gen_mix' = EntryTable(gen_mix)
    /\ request_end' = NoDT
    /\ success' = FALSE /\ try_counter' = 0 /\ delay' = InitialDelay /\ page' = NoPage
    /\ UNCHANGED retries
    /\ IF type_check(s, e) \/ tz_check(s, e)
       THEN /\ Raise("InvalidInputError")
            /\ start' = s /\ end' = e /\ type' = t
            /\ request_start' = NoDT
       ELSE /\ start' = _nearest_hh(s)
            /\ end' = _nearest_hh(e)
            /\ type' = Lower(t)
            /\ IF TypeRejected(type')
               THEN /\ Raise("InvalidInputError")
                    /\ request_start' = NoDT
               ELSE /\ pc' = "while"
                    /\ err' = NoError
                    /\ result' = NoResult
                    /\ request_start' = start'

\* lines 70-74 and 129-131: one more window, and _fetch_url is entered for it
NextPage ==
    /\ pc = "while"
    /\ WhileCond(request_start, end)
    /\ request_end' = RequestEnd(request_start, end, type)
    /\ urls' = Append(urls, Url(request_start, request_end', type))
    /\ success' = FALSE
    /\ try_counter' = 0
    /\ delay' = EntryDelay(delay)
    /\ events' = <<>>
    /\ pc' = "fetch"
    /\ UNCHANGED <<retries, arg_start, arg_end, arg_type, start, end, type,
                   request_start, carbon, gen_mix, page, err, result, frags, gets,
                   script, calls, prev>>

\* lines 70 and 87: the loop is left and the pair is returned
Return ==
    /\ pc = "while"
    /\ ~WhileCond(request_start, end)
    /\ pc' = "done"
    /\ result' = [returned |-> TRUE, carbon |-> carbon, gen_mix |-> gen_mix]
    /\ UNCHANGED <<retries, arg_start, arg_end, arg_type, start, end, type,
                   request_start, request_end, carbon, gen_mix, success,
                   try_counter, delay, page, err, urls, frags, events, gets,
                   script, calls, prev>>

\* lines 132-137: an attempt answered by one of `resps`, all of a success status
GetResponds(resps) ==
    /\ pc = "fetch"
    /\ FetchLoopCond(success, try_counter, retries)
    /\ \E resp \in resps :
          /\ ~RaiseForStatus(resp.status)
          /\ page' = resp
          /\ script' = Append(script, Answer(urls[Len(urls)], "", resp))
    /\ try_counter' = try_counter + 1
    /\ success' = TRUE
    /\ events' = Append(events, Get("ok"))
    /\ gets' = gets + 1
    /\ UNCHANGED <<retries, pc, arg_start, arg_end, arg_type, start, end, type,
                   request_start, request_end, carbon, gen_mix, delay, err,
                   result, urls, frags, calls, prev>>

\* an attempt that raises `exc`, lines 132-143: a sleep and a longer delay, or
\* the exception leaves _fetch_url and between
GetRaises(exc) ==
    /\ pc = "fetch"
    /\ FetchLoopCond(success, try_counter, retries)
    /\ try_counter' = try_counter + 1
    /\ gets' = gets + 1
    /\ IF ExceptClause(exc) = "retry"
       THEN /\ events' = events \o <<Get(exc), Sleep(delay)>>
            /\ delay' = NextDelay(delay)
            /\ UNCHANGED <<pc, err, result>>
       ELSE /\ events' = Append(events, Get(exc))
            /\ Raise(exc)
            /\ UNCHANGED delay
    /\ UNCHANGED <<retries, arg_start, arg_end, arg_type, start, end, type,
                   request_start, request_end, carbon, gen_mix, success, urls, frags,
                   calls, prev>>

\* the response has a failure status: raise_for_status raises HTTPError
GetHTTPError ==
    \E status \in ErrorStatuses :
        /\ RaiseForStatus(status)
        /\ GetRaises("HTTPError")
        /\ page' = ErrorResponse(status)
        /\ script' = Append(script, Answer(urls[Len(urls)], "", ErrorResponse(status)))

\* requests.get itself raises: no response
GetConnectionError ==
    /\ GetRaises("ConnectionError")
    /\ page' = page
    /\ script' = Append(script, Answer(urls[Len(urls)], "ConnectionError", NoPage))

\* lines 144-149 and 75-86: the loop of _fetch_url is left; it raises, or the
\* page is parsed and appended and the cursor moves on
FetchExit ==
    /\ pc = "fetch"
    /\ ~FetchLoopCond(success, try_counter, retries)
    /\ IF AfterLoop(success, page) = "return"
       THEN LET data == _parse_fromto_json(page.data, type)
            IN  /\ carbon' = Accumulate(carbon, data[1])
                /\ gen_mix' = Accumulate(gen_mix, data[2])
                /\ frags' = Append(frags, data[1])
                /\ request_start' = NextRequestStart(request_start, type)
                /\ pc' = "while"
                /\ UNCHANGED <<err, result>>
       ELSE /\ Raise(AfterLoop(success, page))
            /\ UNCHANGED <<carbon, gen_mix, request_start, frags>>
    /\ UNCHANGED <<retries, arg_start, arg_end, arg_type, start, end, type,
                   request_end, success, try_counter, delay, page, urls, events, gets,
                   script, calls, prev>>

-----------------------------------------------------------------------------
(* The calls made and the specifications *)

MaxRange == max_range(National)

\* lengths of the requested interval: none, one half hour, and around every
\* multiple of the maximum window up to MaxSpan
Spans ==
    {0, HalfHour} \cup
    {k * MaxRange + d : k \in 1..MaxSpan, d \in {-HalfHour, 0, HalfHour}}

TypeArgs ==
    {National, Regional,
     <<"R", "e", "g", "i", "o", "n", "a", "l">>,
     <<"N", "A", "T", "I", "O", "N", "A", "L">>,
     <<"l", "o", "c", "a", "l">>}

\* the calls of Spec: few arguments, any transport
StartArgs == {DT(Noon, 0, Zone(0)), DT(Noon + 60, 0, Zone(0)), DT(Noon, 0, NoTz)}
EndArgs ==
    {DT(Noon + HalfHour, 0, Zone(0)), DT(Noon + HalfHour, 0, NoTz)} \cup
    {DT(Noon + k * MaxRange + HalfHour, 0, Zone(0)) : k \in 1..MaxSpan}

\* the calls of SpecReliable: wall-clock times on and off the half hour, with
\* and without seconds and microseconds, in two zones
TimesAround(base) ==
    {DT(base + m * 60 + sc, us, Zone(0)) : m \in {0, 1, 31}, sc \in {0, 59}, us \in {0, 1}}
WideStartArgs == TimesAround(Noon) \cup {DT(Noon, 0, NoTz)}
WideEndArgs ==
    UNION {TimesAround(Noon + span) : span \in Spans}
        \cup {DT(Noon + span + 3600, 0, Zone(3600)) : span \in Spans}
        \cup {DT(Noon + 20 * 60, 0, Zone(0))}
        \cup {DT(Noon + HalfHour, 0, NoTz)}

Call ==
    /\ pc = "idle"
    /\ UNCHANGED prev
    /\ \E s \in StartArgs, e \in EndArgs, t \in TypeArgs : between(s, e, t)

WideCall ==
    /\ pc = "idle"
    /\ UNCHANGED prev
    /\ \E s \in WideStartArgs, e \in WideEndArgs, t \in TypeArgs : between(s, e, t)

GetSucceeds == GetResponds(OkResponses(urls[Len(urls)]))

GetValidPage == GetResponds(ValidResponses(urls[Len(urls)]))

Next ==
    \/ Call
    \/ NextPage
    \/ Return
    \/ GetSucceeds
    \/ GetHTTPError
    \/ GetConnectionError
    \/ FetchExit

Spec == Init /\ [][Next]_vars

\* a second call on the instance, with the arguments of the first
CallAgain ==
    /\ pc \in {"done", "error"}
    /\ calls = 1
    /\ prev' = CallRecord
    /\ between(arg_start, arg_end, arg_type)

\* the transport is deterministic: in the second call, a GET of the url that
\* the GET of the same rank of the first call was for gets the same answer
Deterministic ==
    calls = 2 =>
        LET n == Len(script')
        IN  (n <= Len(prev.script) /\ prev.script[n].url = script'[n].url) =>
                script'[n] = prev.script[n]

SameGetSucceeds == GetSucceeds /\ Deterministic

SameGetHTTPError == GetHTTPError /\ Deterministic

SameGetConnectionError == GetConnectionError /\ Deterministic

\* the program called twice with the same arguments against a deterministic
\* transport
NextRepeat ==
    \/ Call
    \/ CallAgain
    \/ NextPage
    \/ Return
    \/ SameGetSucceeds
    \/ SameGetHTTPError
    \/ SameGetConnectionError
    \/ FetchExit

SpecRepeat == Init /\ [][NextRepeat]_vars

\* the program against a transport that answers every request with a valid page
NextReliable ==
    \/ WideCall
    \/ NextPage
    \/ Return
    \/ GetValidPage
    \/ FetchExit

\* CarbonIntensityAPI(): retries has its default
InitReliable == Init /\ retries = DefaultRetries

SpecReliable == InitReliable /\ [][NextReliable]_vars

-----------------------------------------------------------------------------
(* Notions the properties are stated in *)

\* ceil((e - s) / max_range(t)) for aware datetimes s < e: the whole windows in
\* the distance, and one more for what is left over, microseconds included
PagesNeeded(s, e, t) ==
    LET ds == UtcSec(e) - UtcSec(s)
        du == e.us - s.us
        q  == ds \div max_range(t)
        r  == ds % max_range(t)
    IN  IF r > 0 \/ (r = 0 /\ du > 0) THEN q + 1 ELSE q

\* a half-hour boundary: minute 0 or 30, no seconds, no microseconds
IsHalfHour(dt) == dt.sec % HalfHour = 0 /\ dt.us = 0

\* a <= b on the wall clock of one zone
WallLessEq(a, b) == a.sec < b.sec \/ (a.sec = b.sec /\ a.us <= b.us)

\* b is the least half-hour boundary that is not before dt
LeastHalfHourFrom(dt, b) ==
    /\ b.tz = dt.tz
    /\ IsHalfHour(b)
    /\ WallLessEq(dt, b)
    /\ ~WallLessEq(dt, PlusSeconds(b, -HalfHour))

\* two characters that are the same letter
SameLetter(c, d) ==
    \/ c = d
    \/ \E i \in 1..Len(UpperCase) : {c, d} = {UpperCase[i], LowerCase[i]}

\* two strings that differ in the case of letters at most
EqualIgnoringCase(a, b) ==
    /\ Len(a) = Len(b)
    /\ \A i \in 1..Len(a) : SameLetter(a[i], b[i])

Recognized(t) == EqualIgnoringCase(t, National) \/ EqualIgnoringCase(t, Regional)

\* the attempts of the current page fetch so far all ended in an HTTPError, each
\* followed by its sleep
AllAttemptsHTTPError ==
    /\ ~success
    /\ Len(events) = 2 * try_counter
    /\ \A i \in 1..try_counter :
          /\ events[2 * i - 1] = Get("HTTPError")
          /\ events[2 * i].ev = "sleep"

\* a call of between has got past its checks
Accepted == pc \in {"while", "fetch", "done"} \/ (pc = "error" /\ err # "InvalidInputError")

-----------------------------------------------------------------------------
(* C1 *)

\* C1: against a transport on which every page fetch succeeds, a call whose
\* rounded start is before its rounded end returns after exactly
\* ceil((end - start) / max_range) page requests, for either type.
C1_PageCount ==
    (pc = "done" /\ Less(start, end)) =>
        Len(urls) = PagesNeeded(start, end, type)

\* a call that needed three pages has returned; its interval is no multiple of
\* the maximum window
C1_Witness ==
    /\ pc = "done"
    /\ Less(start, end)
    /\ Len(urls) = 3
    /\ (UtcSec(end) - UtcSec(start)) % max_range(type) # 0

-----------------------------------------------------------------------------
(* C2 *)

\* C2: when every attempt of a page fetch ends in an HTTP-status failure, the
\* fetch makes another attempt as long as fewer than retries + 1 were made,
\* never makes more than retries + 1, and once retries + 1 were made it raises
\* FetchError without another attempt; FetchError for retries exhausted comes
\* after exactly retries + 1 attempts.
C2_Exhaustion ==
    /\ []((urls # <<>> /\ AllAttemptsHTTPError) =>
            /\ try_counter <= retries + 1
            /\ pc \in {"fetch", "error"}
            /\ (pc = "error" => err = "FetchError" /\ try_counter = retries + 1))
    /\ [][(pc = "fetch" /\ AllAttemptsHTTPError) =>
            IF try_counter < retries + 1
            THEN pc' = "fetch" \/ try_counter' = try_counter + 1
            ELSE pc' = "error" /\ err' = "FetchError" /\ try_counter' = try_counter
                    /\ gets' = gets]_vars

\* with retries = 3, FetchError after four attempts that all ended in HTTPError
C2_Witness ==
    /\ retries = 3
    /\ pc = "error"
    /\ err = "FetchError"
    /\ AllAttemptsHTTPError
    /\ try_counter = 4

-----------------------------------------------------------------------------
(* C3 *)

\* C3: once an attempt of a page fetch has succeeded after k failed ones, the
\* fetch has made exactly k + 1 attempts, k <= retries, and exactly k sleeps, of
\* 1, 2, 4, ..., 2^(k-1), each right after a failed attempt and before the
\* next attempt; and a page with a decodable body is then returned to between
\* with no further attempt or sleep.
C3_BackOff ==
    /\ [](((pc \in {"fetch", "while", "done"} /\ success) =>
            LET k == try_counter - 1
            IN  /\ 0 <= k /\ k <= retries
                /\ Len(events) = 2 * k + 1
                /\ \A i \in 1..k :
                      /\ events[2 * i - 1] = Get("HTTPError")
                      /\ events[2 * i] = Sleep(2 ^ (i - 1))
                /\ events[2 * k + 1] = Get("ok")))
    /\ [][(pc = "fetch" /\ success /\ page.decodable) =>
            (pc' = "while" /\ events' = events /\ gets' = gets
                /\ try_counter' = try_counter)]_vars

\* a page returned at the fourth attempt, after sleeps of 1, 2 and 4
C3_Witness ==
    /\ pc = "while"
    /\ success
    /\ try_counter = 4
    /\ events = <<Get("HTTPError"), Sleep(1), Get("HTTPError"), Sleep(2),
                  Get("HTTPError"), Sleep(4), Get("ok")>>

-----------------------------------------------------------------------------
(* C4 *)

\* C4: the rounding maps every timestamp, with or without seconds and
\* microseconds, to the least half-hour boundary that is not before it.
C4_RoundsUpToHalfHour ==
    Accepted =>
        /\ LeastHalfHourFrom(arg_start, start)
        /\ LeastHalfHourFrom(arg_end, end)

-----------------------------------------------------------------------------
(* C5 *)

\* C5: a call with a naive start or end, or with a type that is neither
\* 'national' nor 'regional' whatever the case of its letters, ends in
\* InvalidInputError with no url built and no GET made; a call with aware
\* arguments and a type that is one of the two up to case is not refused.
C5_InvalidInput ==
    pc # "idle" =>
        IF arg_start.tz = NoTz \/ arg_end.tz = NoTz \/ ~Recognized(arg_type)
        THEN pc = "error" /\ err = "InvalidInputError" /\ gets = 0 /\ urls = <<>>
                /\ ~result.returned
        ELSE Accepted

\* a call with an aware start and a naive end was refused
C5_Witness ==
    /\ pc = "error"
    /\ err = "InvalidInputError"
    /\ arg_start.tz # NoTz
    /\ arg_end.tz = NoTz
    /\ Recognized(arg_type)

\* a call with type 'Regional' got past the checks; its rounded start is
\* before its rounded end
C5_WitnessAccepted ==
    /\ arg_type = <<"R", "e", "g", "i", "o", "n", "a", "l">>
    /\ pc = "while"
    /\ Less(start, end)

-----------------------------------------------------------------------------
(* C6 *)

\* the page fetch entered last has ended in Failed: its retries are exhausted,
\* or its body could not be decoded, or an attempt raised another exception
\* than HTTPError
PageFetchFailed ==
    /\ urls # <<>>
    /\ pc # "fetch"
    /\ \/ ~success /\ try_counter >= retries + 1
       \/ success /\ ~page.decodable
       \/ /\ events # <<>>
          /\ events[Len(events)].ev = "get"
          /\ events[Len(events)].out \notin {"ok", "HTTPError"}

\* C6: when the fetch of a page, the first or a later one, has ended in Failed,
\* between has ended in an error and has returned nothing, whatever was
\* accumulated from the pages before; and a call that ended in an error has
\* returned nothing.
C6_NoPartialResult ==
    /\ PageFetchFailed => (pc = "error" /\ err # NoError /\ result = NoResult)
    /\ pc = "error" => ~result.returned

\* the fetch of the second page of three failed after the first page had been
\* accumulated
C6_Witness ==
    /\ pc = "error"
    /\ PageFetchFailed
    /\ Len(urls) = 2
    /\ Len(frags) = 1
    /\ carbon.rows # <<>>
    /\ PagesNeeded(start, end, type) = 3

-----------------------------------------------------------------------------
(* C7 *)

RECURSIVE Concatenation(_)
\* the rows of the fragments, fragment after fragment
Concatenation(fs) ==
    IF fs = <<>> THEN <<>> ELSE Head(fs).rows \o Concatenation(Tail(fs))

\* a <= b for the timestamps of rows
NotAfter(a, b) == ~Less(b, a)

NonDecreasing(rows) ==
    \A i \in 1..Len(rows) - 1 : NotAfter(rows[i].timestamp, rows[i + 1].timestamp)

\* the rows of page i are in non-decreasing order and inside its window
PageWellOrdered(i) ==
    /\ NonDecreasing(frags[i].rows)
    /\ \A j \in 1..Len(frags[i].rows) :
          /\ NotAfter(FromIso(urls[i].from), frags[i].rows[j].timestamp)
          /\ NotAfter(frags[i].rows[j].timestamp, FromIso(urls[i].to))

\* C7: the carbon table returned for a range of two or more pages is the rows
\* of page 1, then those of page 2, and so on in request order (and so is the
\* generation-mix table of a regional call, whose rows carry the timestamp and
\* the region of the carbon rows); and when every
\* page came with its rows in non-decreasing timestamp order inside its own
\* request window, the timestamps of the whole table are non-decreasing.
C7_ConcatenationOrder ==
    (pc = "done" /\ Len(urls) >= 2) =>
        /\ result.returned
        /\ Len(frags) = Len(urls)
        /\ result.carbon.rows = Concatenation(frags)
        /\ type = Regional => result.gen_mix.rows = Concatenation(frags)
        /\ (\A i \in 1..Len(frags) : PageWellOrdered(i)) =>
              NonDecreasing(result.carbon.rows)

\* three well-ordered pages of two rows each were returned as one table
C7_Witness ==
    /\ pc = "done"
    /\ Len(urls) = 3
    /\ \A i \in 1..Len(frags) : PageWellOrdered(i) /\ frags[i].rows # <<>>
    /\ type = National
    /\ Len(result.carbon.rows) = 6

-----------------------------------------------------------------------------
(* C8 *)

\* the request windows, in seconds of UTC
WindowFrom(i) == UtcSec(FromIso(urls[i].from))
WindowTo(i) == UtcSec(FromIso(urls[i].to))

\* the half-hour boundaries t with s <= t < e, for half-hour aligned s and e
BoundariesFrom(s, e) ==
    {UtcSec(s) + j * HalfHour : j \in 0..((UtcSec(e) - UtcSec(s)) \div HalfHour - 1)}

\* C8: for half-hour aligned start < end, the inclusive request windows of a
\* call never overlap, no half-hour boundary lies strictly between the end of
\* one window and the start of the next, and once the call has returned every
\* half-hour boundary t with start <= t < end lies in exactly one window.
C8_WindowsPartition ==
    (pc \in {"fetch", "while", "done"}
            /\ IsHalfHour(start) /\ IsHalfHour(end) /\ Less(start, end)) =>
        /\ \A i \in 1..Len(urls) : WindowFrom(i) <= WindowTo(i)
        /\ \A i \in 1..Len(urls) - 1 :
              /\ WindowTo(i) < WindowFrom(i + 1)
              /\ WindowFrom(i + 1) - WindowTo(i) <= HalfHour
        /\ pc = "done" =>
              \A t \in BoundariesFrom(start, end) :
                  Cardinality({i \in 1..Len(urls) :
                                  WindowFrom(i) <= t /\ t <= WindowTo(i)}) = 1

\* a call over exactly two maximum windows has returned after two requests
C8_Witness ==
    /\ pc = "done"
    /\ IsHalfHour(start) /\ IsHalfHour(end)
    /\ UtcSec(end) - UtcSec(start) = 2 * max_range(type)
    /\ Len(urls) = 2

-----------------------------------------------------------------------------
(* C9 *)

\* C9: an attempt that raised another exception than HTTPError is the last
\* event of its page fetch (no sleep and no attempt follows it) and the call
\* has ended with that very exception, however many attempts were left.
C9_OtherErrorsPropagate ==
    \A i \in 1..Len(events) :
        (events[i].ev = "get" /\ events[i].out \notin {"ok", "HTTPError"}) =>
            /\ i = Len(events)
            /\ pc = "error"
            /\ err = events[i].out
            /\ err # "FetchError"

\* a connection error at the first attempt of three retries ended the call
C9_Witness ==
    /\ pc = "error"
    /\ err = "ConnectionError"
    /\ retries = 3
    /\ try_counter = 1
    /\ events = <<Get("ConnectionError")>>

-----------------------------------------------------------------------------
(* C10 *)

\* C10: once an attempt got a success status with a body that cannot be
\* decoded, that attempt is the last event of the page fetch (no sleep and no
\* attempt follows) and the fetch is about to fail or has failed with
\* FetchError, however few attempts were used.
C10_DecodeFailure ==
    /\ []((success /\ ~page.decodable /\ urls # <<>>) =>
            /\ events # <<>>
            /\ events[Len(events)] = Get("ok")
            /\ pc = "fetch" \/ (pc = "error" /\ err = "FetchError")
            /\ ~result.returned)
    /\ [][(pc = "fetch" /\ success /\ ~page.decodable) =>
            (pc' = "error" /\ events' = events /\ gets' = gets)]_vars

\* FetchError for an undecodable body at the first attempt of three retries
C10_Witness ==
    /\ pc = "error"
    /\ err = "FetchError"
    /\ success
    /\ ~page.decodable
    /\ retries = 3
    /\ try_counter = 1

-----------------------------------------------------------------------------
(* C11 *)

-----------------------------------------------------------------------------
(* C13 *)

\* the sleeps of the current page fetch
SleepsOf(evs) == {i \in 1..Len(evs) : evs[i].ev = "sleep"}

\* C13: every sleep of a page fetch is followed by another attempt (at the
\* latest by the attempt the loop is about to make), and a fetch whose
\* retries + 1 attempts all ended in HTTPError has slept exactly `retries`
\* times when it raises FetchError: no sleep follows the last failed attempt.
C13_WaitsOnlyBetweenAttempts ==
    /\ \A i \in SleepsOf(events) :
          \/ i < Len(events)
          \/ pc = "fetch" /\ FetchLoopCond(success, try_counter, retries)
    /\ (pc = "error" /\ err = "FetchError" /\ urls # <<>> /\ AllAttemptsHTTPError) =>
          Cardinality(SleepsOf(events)) = retries

-----------------------------------------------------------------------------
(* C14 *)

\* the start and the end of the i-th request window
CursorOf(i) == FromIso(urls[i].from)
PageEndOf(i) == FromIso(urls[i].to)

SameInstant(a, b) == UtcSec(a) = UtcSec(b) /\ a.us = b.us

\* C14: the last request of a call that has returned ends at `end`, also when
\* end - start is a multiple of the maximum window; stated for a start and an
\* end that are on the half hour.
C14_LastWindowEndsAtEnd ==
    (pc = "done" /\ IsHalfHour(start) /\ IsHalfHour(end) /\ Less(start, end)) =>
        SameInstant(PageEndOf(Len(urls)), end)

-----------------------------------------------------------------------------
(* C15 *)

\* C15: the first request of a call starts at the rounded start and every
\* later one starts exactly one maximum window after the one before it,
\* whatever the windows' ends and the responses were: the starts are strictly
\* increasing.
C15_CursorAdvance ==
    /\ \A i \in 1..Len(urls) :
          CursorOf(i) = PlusSeconds(start, (i - 1) * max_range(type))
    /\ \A i \in 1..Len(urls) - 1 : Less(CursorOf(i), CursorOf(i + 1))

\* the third request of a call was built after two pages whose rows came out
\* of order
C15_Witness ==
    /\ pc = "fetch"
    /\ Len(urls) = 3
    /\ Len(frags) = 2
    /\ \A i \in 1..2 : ~NonDecreasing(frags[i].rows)

-----------------------------------------------------------------------------
(* C16 *)

\* C16: every request window has its start before its end, ends no later than
\* one maximum window less a half hour after its start, and ends no later
\* than `end`.
C16_WindowBounds ==
    \A i \in 1..Len(urls) :
        /\ Less(CursorOf(i), PageEndOf(i))
        /\ ~Less(PlusSeconds(PlusSeconds(CursorOf(i), max_range(type)), -HalfHour),
                 PageEndOf(i))
        /\ ~Less(end, PageEndOf(i))

\* two requests, the first of the full length and the second cut at `end`,
\* one half hour long
C16_Witness ==
    /\ pc = "done"
    /\ Len(urls) = 2
    /\ SameInstant(PageEndOf(1),
                   PlusSeconds(PlusSeconds(CursorOf(1), max_range(type)), -HalfHour))
    /\ SameInstant(PageEndOf(2), end)
    /\ UtcSec(PageEndOf(2)) - UtcSec(CursorOf(2)) = HalfHour

-----------------------------------------------------------------------------
(* C17 *)

\* C17: pages are fetched one at a time and in order: a page is being fetched
\* exactly when one request more was built than pages were appended; a request
\* is built only when every page requested before was fetched with success
\* and appended; a GET is made only for the page requested last; and once a
\* page fetch has ended in Failed, or the call in an error, no request is
\* built and no GET is made any more.
C17_OnePageAtATime ==
    /\ [](/\ pc = "fetch" => Len(urls) = Len(frags) + 1
          /\ pc \in {"while", "done"} => Len(urls) = Len(frags)
          /\ Len(frags) <= Len(urls))
    /\ [][urls' # urls =>
            /\ urls' = Append(urls, urls'[Len(urls')])
            /\ Len(frags) = Len(urls)
            /\ urls # <<>> => (success /\ page.decodable /\ ~PageFetchFailed)
            /\ gets' = gets]_vars
    /\ [][gets' # gets =>
            (pc = "fetch" /\ gets' = gets + 1 /\ urls' = urls
                /\ Len(frags) = Len(urls) - 1)]_vars
    /\ [][(PageFetchFailed \/ pc = "error") =>
            (urls' = urls /\ gets' = gets /\ frags' = frags /\ pc' = "error")]_vars

\* the third page is being fetched, at its second attempt, after two pages
\* were appended
C17_Witness ==
    /\ pc = "fetch"
    /\ Len(urls) = 3
    /\ Len(frags) = 2
    /\ try_counter = 1
    /\ ~success

-----------------------------------------------------------------------------
(* C19 *)

\* C19: the start and the end of every request window are on the half hour,
\* whatever seconds and microseconds the start and the end as passed had.
C19_RequestsOnHalfHour ==
    \A i \in 1..Len(urls) : IsHalfHour(CursorOf(i)) /\ IsHalfHour(PageEndOf(i))

-----------------------------------------------------------------------------
(* C18 *)

\* The program is one thread that runs on until between returns or raises, and
\* every requests.get and every sleep returns: a step that can be taken is
\* taken.
SpecFair == Spec /\ WF_vars(Next)

\* C18: a page fetch never makes more than retries + 1 attempts and always
\* comes to its end, a page returned to between or an exception; and every
\* call of between comes to its end, returning or raising.
C18_Termination ==
    /\ [](try_counter <= retries + 1)
    /\ [](pc = "fetch" => Len(SelectSeq(events, LAMBDA e : e.ev = "get")) = try_counter)
    /\ (pc = "fetch") ~> (pc \in {"while", "error"})
    /\ (pc # "idle") ~> (pc \in {"done", "error"})

\* a call of three pages has returned after every page took all of its
\* retries + 1 = 4 attempts
C18_Witness ==
    /\ pc = "done"
    /\ retries = 3
    /\ Len(urls) = 3
    /\ gets = 12

-----------------------------------------------------------------------------
(* C12 *)

IsPrefix(a, b) == Len(a) <= Len(b) /\ \A i \in 1..Len(a) : a[i] = b[i]

\* C12: a second call on the instance with the arguments of the first, against
\* a deterministic transport, builds the urls of the first call in the same
\* order, makes the same GETs with the same answers, and ends the way the
\* first call ended: the same tables returned, or the same exception.
C12_RepeatedCall ==
    calls = 2 =>
        /\ IsPrefix(urls, prev.urls)
        /\ IsPrefix(script, prev.script)
        /\ pc \in {"done", "error"} =>
              /\ urls = prev.urls
              /\ script = prev.script
              /\ result = prev.result
              /\ err = prev.err

\* the second call has returned the rows of three pages, one of them fetched
\* at the second attempt
C12_Witness ==
    /\ calls = 2
    /\ pc = "done"
    /\ Len(urls) = 3
    /\ gets = 4
    /\ Len(result.carbon.rows) = 6

-----------------------------------------------------------------------------
(* C20 *)

\* C20: the attempt count and the delay of a page fetch depend on that fetch
\* alone: the count is the number of its GETs and the delay is 1 doubled once
\* per sleep of it, so a fetch starts at count 0 and delay 1 whatever the
\* fetches and the calls before it used; and no step changes the retries of
\* the instance (its max_range and its base url are assigned in __init__
\* only).
C20_RetryStateLocal ==
    /\ [](pc = "fetch" =>
            /\ try_counter = Len(SelectSeq(events, LAMBDA e : e.ev = "get"))
            /\ delay = InitialDelay * 2 ^ Cardinality(SleepsOf(events)))
    /\ [][urls' # urls /\ urls' # <<>> =>
            (try_counter' = 0 /\ delay' = InitialDelay /\ ~success')]_vars
    /\ [][retries' = retries]_vars

\* the second page of the second call starts at count 0 and delay 1 after
\* the first page took three attempts
C20_Witness ==
    /\ calls = 2
    /\ pc = "fetch"
    /\ Len(urls) = 2
    /\ gets = 3
    /\ try_counter = 0
    /\ delay = 1

=============================================================================
